---------------------------- MODULE Spec2Model ----------------------------
(***************************************************************************)
(* Model of package json of cloudogu/blueprint-lib (json/blueprint.go):    *)
(* the TargetState enum codec, the version-discovery parser ParseBlueprint *)
(* and the decoding of a document into BlueprintV1.                        *)
(*                                                                         *)
(* A byte slice is a sequence of one-character strings.  The calls into    *)
(* encoding/json (json.Unmarshal at lines 77 and 146, and the decoding of  *)
(* the struct types of lines 23-141) are modelled by what the decoder      *)
(* does: it first validates the whole text (checkValid), then walks the    *)
(* value and stores it into the destination.  The alphabet has no          *)
(* backslash and no control characters, so string literals carry no        *)
(* escapes; numbers are runs of non-zero digits.                           *)
(***************************************************************************)
EXTENDS Integers, Sequences, FiniteSets, TLC

VARIABLES
  toString,   \* package-level map TargetState -> string   (line 52)
  toID,       \* package-level map string -> TargetState   (line 57)
  pc,         \* position of the sequential caller: "ready" | "done"
  call,       \* the call being made: operation and its arguments
  ret,        \* what the call returned (meaningful when pc = "done")
  procs       \* concurrent callers (SpecConc): per caller its position and locals

vars == <<toString, toID, pc, call, ret, procs>>

\* F applied to the value of v, with v evaluated once
With(v, F(_)) == CHOOSE y \in {F(x) : x \in {v}} : TRUE

(***************************************************************************)
(* Bytes and strings                                                       *)
(***************************************************************************)
DQ == "\""

Quote(s) == <<DQ>> \o s \o <<DQ>>

sPresent == <<"p","r","e","s","e","n","t">>
sAbsent == <<"a","b","s","e","n","t">>
sNull == <<"n","u","l","l">>
sTrue == <<"t","r","u","e">>
sFalse == <<"f","a","l","s","e">>

Digits == {"1","2","3","4","5","6","7","8","9"}

UpperCase == <<"A","B","C","D","E","F","G","H","I","J","K","L","M",
               "N","O","P","Q","R","S","T","U","V","W","X","Y","Z">>
LowerCase == <<"a","b","c","d","e","f","g","h","i","j","k","l","m",
               "n","o","p","q","r","s","t","u","v","w","x","y","z">>

\* ASCII case folding of one byte, as the decoder folds object keys
Lower(c) ==
  IF \E i \in 1..Len(UpperCase) : UpperCase[i] = c
  THEN LowerCase[CHOOSE i \in 1..Len(UpperCase) : UpperCase[i] = c]
  ELSE c

\* the decoder's key match: exact, or equal under case folding
FoldEq(a, b) ==
  /\ Len(a) = Len(b)
  /\ \A i \in 1..Len(a) : Lower(a[i]) = Lower(b[i])

(***************************************************************************)
(* The JSON scanner: the value starting at b[i], or a syntax error.        *)
(* A value is [kind, str, items, lo, hi]: str the text of a string, items  *)
(* the members [key, val] of an object or the elements of an array, lo..hi *)
(* the bytes of the value.                                                 *)
(***************************************************************************)
Value(k, s, it, lo, hi) == [kind |-> k, str |-> s, items |-> it, lo |-> lo, hi |-> hi]

Fail == [ok |-> FALSE, next |-> 0, val |-> Value("none", <<>>, <<>>, 0, 0)]

Ok(v, n) == [ok |-> TRUE, next |-> n, val |-> v]

RECURSIVE SkipWS(_, _)
SkipWS(b, i) == IF i <= Len(b) /\ b[i] = " " THEN SkipWS(b, i + 1) ELSE i

\* a string literal opening at b[i]: up to the next quote
ScanString(b, i) ==
  With({j \in (i + 1)..Len(b) : b[j] = DQ}, LAMBDA close :
    IF close = {} THEN Fail
    ELSE With(CHOOSE x \in close : \A y \in close : x <= y, LAMBDA j :
           Ok(Value("string", SubSeq(b, i + 1, j - 1), <<>>, i, j), j + 1)))

RECURSIVE NumberEnd(_, _)
NumberEnd(b, i) == IF i <= Len(b) /\ b[i] \in Digits THEN NumberEnd(b, i + 1) ELSE i

ScanNumber(b, i) ==
  With(NumberEnd(b, i), LAMBDA j : Ok(Value("number", <<>>, <<>>, i, j - 1), j))

ScanLiteral(b, i, word, kind) ==
  LET j == i + Len(word)
  IN IF j - 1 <= Len(b) /\ SubSeq(b, i, j - 1) = word
     THEN Ok(Value(kind, <<>>, <<>>, i, j - 1), j)
     ELSE Fail

RECURSIVE ParseValue(_, _)
RECURSIVE ParseMembers(_, _, _, _)
RECURSIVE ParseElements(_, _, _, _)

ParseValue(b, i) ==
  With(SkipWS(b, i), LAMBDA s :
     IF s > Len(b) THEN Fail
     ELSE CASE b[s] = DQ -> ScanString(b, s)
            [] b[s] \in Digits -> ScanNumber(b, s)
            [] b[s] = "n" -> ScanLiteral(b, s, sNull, "null")
            [] b[s] = "t" -> ScanLiteral(b, s, sTrue, "bool")
            [] b[s] = "f" -> ScanLiteral(b, s, sFalse, "bool")
            [] b[s] = "{" ->
                 LET t == SkipWS(b, s + 1)
                 IN IF t <= Len(b) /\ b[t] = "}"
                    THEN Ok(Value("object", <<>>, <<>>, s, t), t + 1)
                    ELSE ParseMembers(b, t, <<>>, s)
            [] b[s] = "[" ->
                 LET t == SkipWS(b, s + 1)
                 IN IF t <= Len(b) /\ b[t] = "]"
                    THEN Ok(Value("array", <<>>, <<>>, s, t), t + 1)
                    ELSE ParseElements(b, t, <<>>, s)
            [] OTHER -> Fail)

\* members of the object opened at lo, the next key expected at b[i]
ParseMembers(b, i, acc, lo) ==
  With(SkipWS(b, i), LAMBDA s :
    IF s > Len(b) \/ b[s] # DQ THEN Fail
    ELSE With(ScanString(b, s), LAMBDA k :
      IF ~k.ok THEN Fail
      ELSE With(SkipWS(b, k.next), LAMBDA c :
        IF c > Len(b) \/ b[c] # ":" THEN Fail
        ELSE With(ParseValue(b, c + 1), LAMBDA v :
          IF ~v.ok THEN Fail
          ELSE With(SkipWS(b, v.next), LAMBDA e :
            With(Append(acc, [key |-> k.val.str, val |-> v.val]), LAMBDA more :
              IF e > Len(b) THEN Fail
              ELSE IF b[e] = "," THEN ParseMembers(b, e + 1, more, lo)
              ELSE IF b[e] = "}" THEN Ok(Value("object", <<>>, more, lo, e), e + 1)
              ELSE Fail))))))

\* elements of the array opened at lo, the next element expected at b[i]
ParseElements(b, i, acc, lo) ==
  With(ParseValue(b, i), LAMBDA v :
    IF ~v.ok THEN Fail
    ELSE With(SkipWS(b, v.next), LAMBDA e :
      With(Append(acc, v.val), LAMBDA more :
        IF e > Len(b) THEN Fail
        ELSE IF b[e] = "," THEN ParseElements(b, e + 1, more, lo)
        ELSE IF b[e] = "]" THEN Ok(Value("array", <<>>, more, lo, e), e + 1)
        ELSE Fail)))

\* checkValid: one value, then only white space up to the end of the input
Scan(b) ==
  With(b, LAMBDA text :
    With(ParseValue(text, 1), LAMBDA r :
      IF r.ok /\ SkipWS(text, r.next) = Len(text) + 1 THEN r ELSE Fail))

(***************************************************************************)
(* Errors                                                                  *)
(***************************************************************************)
Nil == [kind |-> "nil"]

SyntaxError == [kind |-> "SyntaxError"]

UnmarshalTypeError(jsonKind, goType) ==
  [kind |-> "UnmarshalTypeError", value |-> jsonKind, type |-> goType]


\* the decoder keeps the first type error and goes on decoding
SaveError(saved, err) == IF saved = Nil THEN err ELSE saved

Wrapped(msg, value, cause) ==
  [kind |-> "wrapped", msg |-> msg, value |-> value, cause |-> cause]

(***************************************************************************)
(* TargetState and its codec (lines 33-84)                                 *)
(***************************************************************************)
TargetStatePresent == 0
TargetStateAbsent == 1
TargetStateIgnore == 2

ToStringInit ==
  [s \in {TargetStatePresent, TargetStateAbsent} |->
     IF s = TargetStatePresent THEN sPresent ELSE sAbsent]

ToIDInit ==
  [w \in {sPresent, sAbsent} |->
     IF w = sPresent THEN TargetStatePresent ELSE TargetStateAbsent]

\* indexing a Go map: the zero value for a key that is not in it
MapGet(m, k, zero) == IF k \in DOMAIN m THEN m[k] ELSE zero

\* String(): toString[state]
String(state) == MapGet(toString, state, <<>>)

\* MarshalJSON without its last WriteString: the closing quote is missing
MarshalJSON_NoClosingQuote(state) ==
  [bytes |-> <<DQ>> \o MapGet(toString, state, <<>>), err |-> Nil]

\* MarshalJSON: a quote, toString[state], a quote; the error is always nil
MarshalJSON(state) ==
  LET buffer0 == <<DQ>>
      buffer1 == buffer0 \o MapGet(toString, state, <<>>)
      buffer2 == buffer1 \o <<DQ>>
  IN [bytes |-> buffer2, err |-> Nil]

\* json.Unmarshal(b, &j) with j a string variable holding ""
UnmarshalString(b) ==
  With(Scan(b), LAMBDA r :
    IF ~r.ok THEN [j |-> <<>>, err |-> SyntaxError]
    ELSE IF r.val.kind = "string" THEN [j |-> r.val.str, err |-> Nil]
    ELSE IF r.val.kind = "null" THEN [j |-> <<>>, err |-> Nil]
    ELSE [j |-> <<>>, err |-> UnmarshalTypeError(r.val.kind, "string")])

\* UnmarshalJSON that assigns only when the string is found in toID
UnmarshalJSON_KeepOnUnknown(b, state) ==
  With(UnmarshalString(b), LAMBDA u :
    IF u.err # Nil
    THEN [state |-> state,
          err |-> Wrapped("cannot unmarshal value %s to a TargetState: %w", b, u.err)]
    ELSE [state |-> MapGet(toID, u.j, state), err |-> Nil])

\* UnmarshalJSON on a destination holding state: the destination after the
\* call, and the error
UnmarshalJSON(b, state) ==
  With(UnmarshalString(b), LAMBDA u :
    IF u.err # Nil
    THEN [state |-> state,
          err |-> Wrapped("cannot unmarshal value %s to a TargetState: %w", b, u.err)]
    ELSE [state |-> MapGet(toID, u.j, TargetStatePresent), err |-> Nil])

(***************************************************************************)
(* Inputs of the codec                                                     *)
(***************************************************************************)
MaxRawLen == 3

RawAlphabet == {DQ, "a", "7", "n"}

SeqsUpTo(S, n) == UNION {[1..k -> S] : k \in 0..n}

\* the contents of the string literals handed to UnmarshalJSON
Words ==
  {sPresent, sAbsent, <<>>, <<"P","R","E","S","E","N","T">>,
   <<"A","b","s","e","n","t">>, <<"w","h","a","t","e","v","e","r">>}

\* wire values that are well-formed JSON but no string
NonStrings ==
  {<<"4","2">>, sTrue, sFalse, sNull, <<"{","}">>, <<"[","]">>,
   <<"{">> \o Quote(<<"a">>) \o <<":","7","}">>,
   <<"[">> \o Quote(sAbsent) \o <<"]">>}

CodecBytes ==
  {Quote(w) : w \in Words} \cup {<<" ">> \o Quote(sAbsent) \o <<" ">>}
    \cup NonStrings \cup {sPresent, <<DQ>> \o sAbsent} \cup SeqsUpTo(RawAlphabet, MaxRawLen)

\* a TargetState is an int: the three declared values and two undeclared ones
TargetStates == {TargetStatePresent, TargetStateAbsent, TargetStateIgnore}

StateInputs == TargetStates \cup {TargetStateIgnore + 1, TargetStatePresent - 1}

CodecCalls ==
  [op : {"String", "MarshalJSON"}, state : StateInputs, b : {<<>>}]
    \cup [op : {"UnmarshalJSON"}, state : TargetStates, b : CodecBytes]

NoRet == [bytes |-> <<>>, state |-> TargetStatePresent, api |-> <<>>, bp |-> <<>>, err |-> Nil]

(***************************************************************************)
(* SpecCodec: one call of String, MarshalJSON or UnmarshalJSON             *)
(***************************************************************************)
InitCodec ==
  /\ toString = ToStringInit
  /\ toID = ToIDInit
  /\ pc = "ready"
  /\ call \in CodecCalls
  /\ ret = NoRet
  /\ procs = <<>>

CallString ==
  /\ pc = "ready" /\ call.op = "String"
  /\ ret' = [NoRet EXCEPT !.bytes = String(call.state)]
  /\ pc' = "done"
  /\ UNCHANGED <<toString, toID, call, procs>>

CallMarshalJSON ==
  /\ pc = "ready" /\ call.op = "MarshalJSON"
  /\ \E r \in {MarshalJSON(call.state)} :
       ret' = [NoRet EXCEPT !.bytes = r.bytes, !.err = r.err]
  /\ pc' = "done"
  /\ UNCHANGED <<toString, toID, call, procs>>

CallUnmarshalJSON ==
  /\ pc = "ready" /\ call.op = "UnmarshalJSON"
  /\ \E r \in {UnmarshalJSON(call.b, call.state)} :
       ret' = [NoRet EXCEPT !.state = r.state, !.err = r.err]
  /\ pc' = "done"
  /\ UNCHANGED <<toString, toID, call, procs>>

\* the caller hands the bytes MarshalJSON returned to UnmarshalJSON, on a
\* destination holding any declared value
DecodeEncoded ==
  /\ pc = "done" /\ call.op = "MarshalJSON" /\ ret.err = Nil
  /\ \E dest \in TargetStates : \E r \in {UnmarshalJSON(ret.bytes, dest)} :
       ret' = [ret EXCEPT !.state = r.state, !.err = r.err]
  /\ pc' = "decoded"
  /\ UNCHANGED <<toString, toID, call, procs>>

NextCodec == CallString \/ CallMarshalJSON \/ CallUnmarshalJSON \/ DecodeEncoded

SpecCodec == InitCodec /\ [][NextCodec]_vars


(***************************************************************************)
(* GeneralBlueprint and ParseBlueprint (lines 23-30, 143-152)              *)
(***************************************************************************)
kBlueprintApi == <<"b","l","u","e","p","r","i","n","t","A","p","i">>

\* the decoder storing the members of an object into a GeneralBlueprint: a
\* member whose key matches the tag blueprintApi (exactly or under case
\* folding) is stored into API, a string by assignment, null not at all,
\* anything else as the first saved type error; the other members are skipped
RECURSIVE StoreGeneralBlueprint(_, _, _, _)
StoreGeneralBlueprint(members, i, api, err) ==
  IF i > Len(members) THEN [api |-> api, err |-> err]
  ELSE With(<<members[i], api, err>>, LAMBDA a :
         IF ~FoldEq(a[1].key, kBlueprintApi)
         THEN StoreGeneralBlueprint(members, i + 1, a[2], a[3])
         ELSE IF a[1].val.kind = "string"
         THEN StoreGeneralBlueprint(members, i + 1, a[1].val.str, a[3])
         ELSE IF a[1].val.kind = "null"
         THEN StoreGeneralBlueprint(members, i + 1, a[2], a[3])
         ELSE StoreGeneralBlueprint(members, i + 1, a[2],
                SaveError(a[3], UnmarshalTypeError(a[1].val.kind, "BlueprintApi"))))

\* the same with unknown fields refused (a decoder set to DisallowUnknownFields)
UnmarshalGeneralBlueprint_Strict(rawBlueprint) ==
  With(Scan(rawBlueprint), LAMBDA r :
    IF ~r.ok THEN [api |-> <<>>, err |-> SyntaxError]
    ELSE IF r.val.kind = "object"
    THEN IF \E i \in 1..Len(r.val.items) : ~FoldEq(r.val.items[i].key, kBlueprintApi)
         THEN [api |-> <<>>, err |-> [kind |-> "unknown field"]]
         ELSE StoreGeneralBlueprint(r.val.items, 1, <<>>, Nil)
    ELSE IF r.val.kind = "null" THEN [api |-> <<>>, err |-> Nil]
    ELSE [api |-> <<>>, err |-> UnmarshalTypeError(r.val.kind, "GeneralBlueprint")])

\* json.Unmarshal(rawBlueprint, &preparsedBlueprint) on a zero GeneralBlueprint:
\* what preparsedBlueprint.API holds afterwards, and the error
UnmarshalGeneralBlueprint(rawBlueprint) ==
  With(Scan(rawBlueprint), LAMBDA r :
    IF ~r.ok THEN [api |-> <<>>, err |-> SyntaxError]
    ELSE IF r.val.kind = "object" THEN StoreGeneralBlueprint(r.val.items, 1, <<>>, Nil)
    ELSE IF r.val.kind = "null" THEN [api |-> <<>>, err |-> Nil]
    ELSE [api |-> <<>>, err |-> UnmarshalTypeError(r.val.kind, "GeneralBlueprint")])

ParseHint == "could not parse blueprint. Please check the blueprint for validity"

\* ParseBlueprint returning what was decoded also when decoding failed
ParseBlueprint_ReturnPartial(rawBlueprint) ==
  With(UnmarshalGeneralBlueprint(rawBlueprint), LAMBDA u :
    IF u.err # Nil
    THEN [api |-> u.api, err |-> Wrapped(ParseHint, <<>>, u.err)]
    ELSE [api |-> u.api, err |-> Nil])

\* ParseBlueprint: the API of the returned GeneralBlueprint, and the error
ParseBlueprint(rawBlueprint) ==
  With(UnmarshalGeneralBlueprint(rawBlueprint), LAMBDA u :
    IF u.err # Nil
    THEN [api |-> <<>>, err |-> Wrapped(ParseHint, <<>>, u.err)]
    ELSE [api |-> u.api, err |-> Nil])

(***************************************************************************)
(* Inputs of ParseBlueprint: documents written out member by member, cut   *)
(* short by some bytes, values that are no object, and bytes that are no   *)
(* JSON.  src records how the bytes were made.                             *)
(***************************************************************************)
MaxMembers == 2
MaxCut == 1

StringValue(s) == [kind |-> "string", str |-> s, bytes |-> Quote(s)]

OtherValue(kind, bytes) == [kind |-> kind, str |-> <<>>, bytes |-> bytes]

NumberValue == OtherValue("number", <<"7">>)
BoolValue == OtherValue("bool", sTrue)
NullValue == OtherValue("null", sNull)
ObjectValue == OtherValue("object", <<"{">> \o Quote(<<"a">>) \o <<":","7","}">>)
ArrayValue == OtherValue("array", <<"[">> \o Quote(<<"v","1">>) \o <<"]">>)

sV1 == <<"v","1">>

ApiValues ==
  {StringValue(sV1), StringValue(<<"v","2">>), StringValue(<<>>),
   NumberValue, BoolValue, NullValue, ObjectValue, ArrayValue}

\* keys the decoder takes for blueprintApi
ApiKeys == {kBlueprintApi, <<"B","l","u","e","p","r","i","n","t","A","P","I">>}

\* members that have nothing to do with the version
UnrelatedMembers ==
  [key : {<<"b","l","u","e","p","r","i","n","t","I","d">>},
   val : {StringValue(<<"v","9">>), NumberValue, ObjectValue}]

ParseMembersMenu == [key : ApiKeys, val : ApiValues] \cup UnrelatedMembers

RenderMember(m) == Quote(m.key) \o <<":">> \o m.val.bytes

RECURSIVE RenderMembers(_, _)
RenderMembers(ms, i) ==
  IF i > Len(ms) THEN <<>>
  ELSE (IF i > 1 THEN <<",">> ELSE <<>>) \o RenderMember(ms[i]) \o RenderMembers(ms, i + 1)

RenderObject(ms) == <<"{">> \o RenderMembers(ms, 1) \o <<"}">>

Cut(b, k) == SubSeq(b, 1, Len(b) - k)

\* bytes that are no JSON text
Garbage ==
  {<<>>, sV1, <<"{","{","}">>, <<"}">>, <<"{">> \o Quote(sV1) \o <<"}">>,
   <<"{">> \o kBlueprintApi \o <<":">> \o Quote(sV1) \o <<"}">>,
   RenderObject(<<>>) \o RenderObject(<<>>)}

ParseCalls ==
  {[op |-> "ParseBlueprint", b |-> Cut(RenderObject(ms), k),
    src |-> [kind |-> "object", members |-> ms, cut |-> k]] :
      ms \in SeqsUpTo(ParseMembersMenu, MaxMembers), k \in 0..MaxCut}
  \cup {[op |-> "ParseBlueprint", b |-> v.bytes,
         src |-> [kind |-> "value", members |-> <<[key |-> <<>>, val |-> v]>>, cut |-> 0]] :
          v \in ApiValues}
  \cup {[op |-> "ParseBlueprint", b |-> g,
         src |-> [kind |-> "garbage", members |-> <<>>, cut |-> 0]] : g \in Garbage}

(***************************************************************************)
(* SpecParse: one call of ParseBlueprint                                   *)
(***************************************************************************)
InitParse ==
  /\ toString = ToStringInit
  /\ toID = ToIDInit
  /\ pc = "ready"
  /\ call \in ParseCalls
  /\ ret = NoRet
  /\ procs = <<>>

CallParseBlueprint ==
  /\ pc = "ready" /\ call.op = "ParseBlueprint"
  /\ \E r \in {ParseBlueprint(call.b)} :
       ret' = [NoRet EXCEPT !.api = r.api, !.err = r.err]
  /\ pc' = "done"
  /\ UNCHANGED <<toString, toID, call, procs>>

NextParse == CallParseBlueprint

SpecParse == InitParse /\ [][NextParse]_vars

(***************************************************************************)
(* BlueprintV1, TargetDogu and TargetPackage (lines 92-141) as the decoder *)
(* fills them.  The values of the three registry fields are not kept, only *)
(* the type errors they raise.                                             *)
(***************************************************************************)
kBlueprintId == <<"b","l","u","e","p","r","i","n","t","I","d">>
kCesappVersion == <<"c","e","s","a","p","p","V","e","r","s","i","o","n">>
kDogus == <<"d","o","g","u","s">>
kPackages == <<"p","a","c","k","a","g","e","s">>
kRegistryConfig == <<"r","e","g","i","s","t","r","y","C","o","n","f","i","g">>
kRegistryConfigAbsent == <<"r","e","g","i","s","t","r","y","C","o","n","f","i","g","A","b","s","e","n","t">>
kRegistryConfigEncrypted == <<"r","e","g","i","s","t","r","y","C","o","n","f","i","g","E","n","c","r","y","p","t","e","d">>
kName == <<"n","a","m","e">>
kVersion == <<"v","e","r","s","i","o","n">>
kTargetState == <<"t","a","r","g","e","t","S","t","a","t","e">>

\* the struct field a key is stored into: the one whose tag the key matches,
\* exactly or under case folding; <<>> when there is none
Field(key, tags) ==
  IF \E t \in tags : FoldEq(key, t) THEN CHOOSE t \in tags : FoldEq(key, t) ELSE <<>>

\* a TargetDogu or TargetPackage whose TargetState is the second enum value
ZeroTarget_AbsentFirst == [Name |-> <<>>, Version |-> <<>>, TargetState |-> TargetStateAbsent]

\* the zero TargetDogu or TargetPackage (the two structs have the same fields)
ZeroTarget == [Name |-> <<>>, Version |-> <<>>, TargetState |-> TargetStatePresent]

\* a JSON value stored into a string field holding old
StoreString(v, old, err, goType) ==
  IF v.kind = "string" THEN [val |-> v.str, err |-> err]
  ELSE IF v.kind = "null" THEN [val |-> old, err |-> err]
  ELSE [val |-> old, err |-> SaveError(err, UnmarshalTypeError(v.kind, goType))]

\* the members of an object stored into the TargetDogu or TargetPackage e;
\* targetState goes through UnmarshalJSON, whose error ends the decoding
RECURSIVE StoreTarget(_, _, _, _, _)
StoreTarget(b, members, i, e, err) ==
  IF i > Len(members) THEN [val |-> e, err |-> err, abort |-> FALSE]
  ELSE With(<<members[i], Field(members[i].key, {kName, kVersion, kTargetState}), e, err>>,
         LAMBDA a :
           IF a[2] = kName
           THEN With(StoreString(a[1].val, a[3].Name, a[4], "string"), LAMBDA r :
                  StoreTarget(b, members, i + 1, [a[3] EXCEPT !.Name = r.val], r.err))
           ELSE IF a[2] = kVersion
           THEN With(StoreString(a[1].val, a[3].Version, a[4], "string"), LAMBDA r :
                  StoreTarget(b, members, i + 1, [a[3] EXCEPT !.Version = r.val], r.err))
           ELSE IF a[2] = kTargetState
           THEN With(UnmarshalJSON(SubSeq(b, a[1].val.lo, a[1].val.hi), a[3].TargetState),
                  LAMBDA u :
                    IF u.err # Nil THEN [val |-> a[3], err |-> u.err, abort |-> TRUE]
                    ELSE StoreTarget(b, members, i + 1,
                                     [a[3] EXCEPT !.TargetState = u.state], a[4]))
           ELSE StoreTarget(b, members, i + 1, a[3], a[4]))

\* a JSON value stored into the TargetDogu or TargetPackage e
DecodeTarget(b, v, e, err) ==
  IF v.kind = "object" THEN StoreTarget(b, v.items, 1, e, err)
  ELSE IF v.kind = "null" THEN [val |-> e, err |-> err, abort |-> FALSE]
  ELSE [val |-> e, err |-> SaveError(err, UnmarshalTypeError(v.kind, "TargetDogu")),
        abort |-> FALSE]

\* A slice is [len, store]: store holds every element ever written into the
\* backing array, the slice shows the first len of them.  The elements of an
\* array are decoded in place: element i into what store[i] holds, or into a
\* zero element appended to it.  An empty array leaves a new empty slice.
RECURSIVE StoreElements(_, _, _, _, _)
StoreElements(b, elems, i, slice, err) ==
  IF i > Len(elems)
  THEN [slice |-> [len |-> Len(elems), store |-> IF Len(elems) = 0 THEN <<>> ELSE slice.store],
        err |-> err, abort |-> FALSE]
  ELSE With(<<IF i <= Len(slice.store) THEN slice.store ELSE Append(slice.store, ZeroTarget),
              IF i > slice.len THEN i ELSE slice.len, err>>,
         LAMBDA a :
           With(DecodeTarget(b, elems[i], a[1][i], a[3]), LAMBDA r :
             With([len |-> a[2], store |-> [a[1] EXCEPT ![i] = r.val]], LAMBDA next :
               IF r.abort THEN [slice |-> next, err |-> r.err, abort |-> TRUE]
               ELSE StoreElements(b, elems, i + 1, next, r.err))))

NilSlice == [len |-> 0, store |-> <<>>]

\* a JSON value stored into a []TargetDogu or []TargetPackage
DecodeTargets(b, v, slice, err) ==
  IF v.kind = "array" THEN StoreElements(b, v.items, 1, slice, err)
  ELSE IF v.kind = "null" THEN [slice |-> NilSlice, err |-> err, abort |-> FALSE]
  ELSE [slice |-> slice, err |-> SaveError(err, UnmarshalTypeError(v.kind, "[]TargetDogu")),
        abort |-> FALSE]

\* the type error of a JSON value stored into a RegistryConfig: an object of
\* objects (or nulls), or null
CheckRegistryConfig(v, err) ==
  IF v.kind = "null" THEN err
  ELSE IF v.kind # "object" THEN SaveError(err, UnmarshalTypeError(v.kind, "RegistryConfig"))
  ELSE IF \E i \in 1..Len(v.items) : v.items[i].val.kind \notin {"object", "null"}
  THEN LET i == CHOOSE x \in 1..Len(v.items) :
                  /\ v.items[x].val.kind \notin {"object", "null"}
                  /\ \A y \in 1..(x - 1) : v.items[y].val.kind \in {"object", "null"}
       IN SaveError(err, UnmarshalTypeError(v.items[i].val.kind, "map[string]interface {}"))
  ELSE err

\* the type error of a JSON value stored into a []string
CheckStrings(v, err) ==
  IF v.kind = "null" THEN err
  ELSE IF v.kind # "array" THEN SaveError(err, UnmarshalTypeError(v.kind, "[]string"))
  ELSE IF \E i \in 1..Len(v.items) : v.items[i].kind \notin {"string", "null"}
  THEN LET i == CHOOSE x \in 1..Len(v.items) :
                  /\ v.items[x].kind \notin {"string", "null"}
                  /\ \A y \in 1..(x - 1) : v.items[y].kind \in {"string", "null"}
       IN SaveError(err, UnmarshalTypeError(v.items[i].kind, "string"))
  ELSE err

V1Tags ==
  {kBlueprintApi, kBlueprintId, kCesappVersion, kDogus, kPackages,
   kRegistryConfig, kRegistryConfigAbsent, kRegistryConfigEncrypted}

ZeroBlueprintV1 ==
  [API |-> <<>>, ID |-> <<>>, CesAppVersion |-> <<>>, Dogus |-> NilSlice, Packages |-> NilSlice]

\* the members of the document stored into the BlueprintV1 bp
RECURSIVE StoreBlueprintV1(_, _, _, _, _)
StoreBlueprintV1(b, members, i, bp, err) ==
  IF i > Len(members) THEN [bp |-> bp, err |-> err]
  ELSE With(<<members[i], Field(members[i].key, V1Tags), bp, err>>, LAMBDA a :
         IF a[2] = kBlueprintApi
         THEN With(StoreString(a[1].val, a[3].API, a[4], "BlueprintApi"), LAMBDA r :
                StoreBlueprintV1(b, members, i + 1, [a[3] EXCEPT !.API = r.val], r.err))
         ELSE IF a[2] = kBlueprintId
         THEN With(StoreString(a[1].val, a[3].ID, a[4], "string"), LAMBDA r :
                StoreBlueprintV1(b, members, i + 1, [a[3] EXCEPT !.ID = r.val], r.err))
         ELSE IF a[2] = kCesappVersion
         THEN With(StoreString(a[1].val, a[3].CesAppVersion, a[4], "string"), LAMBDA r :
                StoreBlueprintV1(b, members, i + 1,
                                 [a[3] EXCEPT !.CesAppVersion = r.val], r.err))
         ELSE IF a[2] = kDogus
         THEN With(DecodeTargets(b, a[1].val, a[3].Dogus, a[4]), LAMBDA r :
                IF r.abort THEN [bp |-> [a[3] EXCEPT !.Dogus = r.slice], err |-> r.err]
                ELSE StoreBlueprintV1(b, members, i + 1,
                                      [a[3] EXCEPT !.Dogus = r.slice], r.err))
         ELSE IF a[2] = kPackages
         THEN With(DecodeTargets(b, a[1].val, a[3].Packages, a[4]), LAMBDA r :
                IF r.abort THEN [bp |-> [a[3] EXCEPT !.Packages = r.slice], err |-> r.err]
                ELSE StoreBlueprintV1(b, members, i + 1,
                                      [a[3] EXCEPT !.Packages = r.slice], r.err))
         ELSE IF a[2] \in {kRegistryConfig, kRegistryConfigEncrypted}
         THEN StoreBlueprintV1(b, members, i + 1, a[3], CheckRegistryConfig(a[1].val, a[4]))
         ELSE IF a[2] = kRegistryConfigAbsent
         THEN StoreBlueprintV1(b, members, i + 1, a[3], CheckStrings(a[1].val, a[4]))
         ELSE StoreBlueprintV1(b, members, i + 1, a[3], a[4]))

Shown(slice) == SubSeq(slice.store, 1, slice.len)

\* json.Unmarshal(raw, &blueprint) on a zero BlueprintV1: the fields of
\* blueprint afterwards, and the error
UnmarshalBlueprintV1(raw) ==
  With(raw, LAMBDA b :
    With(Scan(b), LAMBDA r :
      With(IF ~r.ok THEN [bp |-> ZeroBlueprintV1, err |-> SyntaxError]
           ELSE IF r.val.kind = "object"
           THEN StoreBlueprintV1(b, r.val.items, 1, ZeroBlueprintV1, Nil)
           ELSE IF r.val.kind = "null" THEN [bp |-> ZeroBlueprintV1, err |-> Nil]
           ELSE [bp |-> ZeroBlueprintV1,
                 err |-> UnmarshalTypeError(r.val.kind, "BlueprintV1")],
        LAMBDA d :
          [bp |-> [API |-> d.bp.API, ID |-> d.bp.ID, CesAppVersion |-> d.bp.CesAppVersion,
                   Dogus |-> Shown(d.bp.Dogus), Packages |-> Shown(d.bp.Packages)],
           err |-> d.err])))

(***************************************************************************)
(* Inputs of the decoding into BlueprintV1: documents written out member   *)
(* by member.  good tells that a value has the shape of its field.         *)
(***************************************************************************)
MaxEntries == 1

Member(key, val) == [key |-> key, val |-> val]

\* an entry of dogus or packages, from its members
Entry(ms, good) ==
  [kind |-> "object", bytes |-> RenderObject(ms), members |-> ms, good |-> good]

sA == <<"a">>

NameA == Member(kName, StringValue(sA))

TargetStateKeys == {kTargetState, <<"T","A","R","G","E","T","S","T","A","T","E">>}

\* entries of the shape of a TargetDogu: without targetState, with it, and
\* with it under a key in other letters
Entries ==
  {Entry(<<NameA, Member(kVersion, StringValue(<<"1">>))>>, TRUE),
   Entry(<<NameA, Member(kTargetState, StringValue(sAbsent))>>, TRUE),
   Entry(<<NameA, Member(<<"T","A","R","G","E","T","S","T","A","T","E">>, StringValue(sAbsent))>>, TRUE)}

\* entries a field of which has another shape
BadStateEntry == Entry(<<NameA, Member(kTargetState, NumberValue)>>, FALSE)
BadNameEntry == Entry(<<Member(kName, NumberValue)>>, FALSE)

RECURSIVE RenderElements(_, _)
RenderElements(es, i) ==
  IF i > Len(es) THEN <<>>
  ELSE (IF i > 1 THEN <<",">> ELSE <<>>) \o es[i].bytes \o RenderElements(es, i + 1)

ArrayOf(es) ==
  [kind |-> "array", bytes |-> <<"[">> \o RenderElements(es, 1) \o <<"]">>, elems |-> es,
   good |-> \A i \in 1..Len(es) : es[i].good]

Shaped(v, good) == [kind |-> v.kind, bytes |-> v.bytes, elems |-> <<>>, good |-> good]

DoguKeys == {kDogus, <<"D","o","g","u","s">>}
PackageKeys == {kPackages, <<"P","a","c","k","a","g","e","s">>}

AbsentEntry == Entry(<<NameA, Member(kTargetState, StringValue(sAbsent))>>, TRUE)

V1Menu ==
  {Member(kDogus, ArrayOf(es)) : es \in SeqsUpTo(Entries, MaxEntries)}
    \cup {Member(kDogus, ArrayOf(<<BadStateEntry>>)),
          Member(kDogus, ArrayOf(<<BadNameEntry>>)),
          Member(<<"D","o","g","u","s">>, ArrayOf(<<AbsentEntry>>)),
          Member(kDogus, Shaped(NullValue, TRUE)),
          Member(kDogus, Shaped(NumberValue, FALSE)),
          Member(kPackages, ArrayOf(<<>>)),
          Member(kPackages, ArrayOf(<<AbsentEntry>>)),
          Member(kPackages, ArrayOf(<<Entry(<<NameA>>, TRUE)>>)),
          Member(<<"P","a","c","k","a","g","e","s">>, ArrayOf(<<AbsentEntry>>)),
          Member(kBlueprintApi, Shaped(StringValue(sV1), TRUE)),
          Member(kRegistryConfig,
                 Shaped(OtherValue("object", RenderObject(<<Member(sA, ObjectValue)>>)), TRUE)),
          Member(kRegistryConfigEncrypted, Shaped(ObjectValue, FALSE)),
          Member(kRegistryConfigAbsent, Shaped(ArrayValue, TRUE))}

V1Calls ==
  {[op |-> "UnmarshalBlueprintV1", b |-> RenderObject(ms),
    src |-> [kind |-> "object", members |-> ms, cut |-> 0]] :
      ms \in SeqsUpTo(V1Menu, MaxMembers)}
  \cup {[op |-> "UnmarshalBlueprintV1", b |-> g,
         src |-> [kind |-> "garbage", members |-> <<>>, cut |-> 0]] : g \in Garbage}

(***************************************************************************)
(* SpecV1: one decoding of a document into a BlueprintV1                   *)
(***************************************************************************)
InitV1 ==
  /\ toString = ToStringInit
  /\ toID = ToIDInit
  /\ pc = "ready"
  /\ call \in V1Calls
  /\ ret = NoRet
  /\ procs = <<>>

CallUnmarshalBlueprintV1 ==
  /\ pc = "ready" /\ call.op = "UnmarshalBlueprintV1"
  /\ \E r \in {UnmarshalBlueprintV1(call.b)} :
       ret' = [NoRet EXCEPT !.bp = r.bp, !.err = r.err]
  /\ pc' = "done"
  /\ UNCHANGED <<toString, toID, call, procs>>

NextV1 == CallUnmarshalBlueprintV1

SpecV1 == InitV1 /\ [][NextV1]_vars

(***************************************************************************)
(* SpecConc: callers running String, MarshalJSON, UnmarshalJSON and        *)
(* ParseBlueprint at the same time, one statement at a time.  Each caller  *)
(* owns its receiver and its input buffer b (b0 is b as it was handed      *)
(* over, state0 the receiver before the call); toString and toID are       *)
(* shared.                                                                 *)
(***************************************************************************)
NumProcs == 2

Procs == 1..NumProcs

ConcBytes ==
  {Quote(sAbsent), Quote(<<"w","h","a","t","e","v","e","r">>), <<"4","2">>, sNull}

ConcBlueprints ==
  {RenderObject(<<>>),
   RenderObject(<<Member(kBlueprintApi, StringValue(sV1))>>),
   RenderObject(<<Member(kBlueprintApi, NumberValue)>>)}

ConcCalls ==
  [op : {"String"}, state : {TargetStatePresent, TargetStateIgnore}, b : {<<>>}]
    \cup [op : {"MarshalJSON"}, state : {TargetStateAbsent, TargetStateIgnore}, b : {<<>>}]
    \cup [op : {"UnmarshalJSON"}, state : {TargetStateAbsent}, b : ConcBytes]
    \cup [op : {"ParseBlueprint"}, state : {TargetStatePresent}, b : ConcBlueprints]

FirstLine(op) ==
  CASE op = "String" -> "String49"
    [] op = "MarshalJSON" -> "Marshal64"
    [] op = "UnmarshalJSON" -> "Unmarshal77"
    [] op = "ParseBlueprint" -> "Parse146"

Caller(c) ==
  [pc |-> FirstLine(c.op), op |-> c.op, b |-> c.b, b0 |-> c.b,
   state |-> c.state, state0 |-> c.state,
   j |-> <<>>, buffer |-> <<>>, out |-> <<>>, api |-> <<>>, err |-> Nil]

InitConc ==
  /\ toString = ToStringInit
  /\ toID = ToIDInit
  /\ pc = "concurrent"
  /\ call = <<>>
  /\ ret = NoRet
  /\ \E cs \in [Procs -> ConcCalls] : procs = [p \in Procs |-> Caller(cs[p])]

At_(p, line) == procs[p].pc = line

\* line 49: return toString[state]
String49(p) ==
  /\ At_(p, "String49")
  /\ procs' = [procs EXCEPT ![p].out = MapGet(toString, procs[p].state, <<>>),
                            ![p].pc = "done"]
  /\ UNCHANGED <<toString, toID, pc, call, ret>>

\* line 64: buffer := bytes.NewBufferString(`"`)
Marshal64(p) ==
  /\ At_(p, "Marshal64")
  /\ procs' = [procs EXCEPT ![p].buffer = <<DQ>>, ![p].pc = "Marshal65"]
  /\ UNCHANGED <<toString, toID, pc, call, ret>>

\* line 65: buffer.WriteString(toString[state])
Marshal65(p) ==
  /\ At_(p, "Marshal65")
  /\ procs' = [procs EXCEPT
                 ![p].buffer = procs[p].buffer \o MapGet(toString, procs[p].state, <<>>),
                 ![p].pc = "Marshal66"]
  /\ UNCHANGED <<toString, toID, pc, call, ret>>

\* line 66: buffer.WriteString(`"`)
Marshal66(p) ==
  /\ At_(p, "Marshal66")
  /\ procs' = [procs EXCEPT ![p].buffer = procs[p].buffer \o <<DQ>>, ![p].pc = "Marshal67"]
  /\ UNCHANGED <<toString, toID, pc, call, ret>>

\* line 67: return buffer.Bytes(), nil
Marshal67(p) ==
  /\ At_(p, "Marshal67")
  /\ procs' = [procs EXCEPT ![p].out = procs[p].buffer, ![p].err = Nil, ![p].pc = "done"]
  /\ UNCHANGED <<toString, toID, pc, call, ret>>

\* lines 76-77: var j string; err := json.Unmarshal(b, &j)
Unmarshal77(p) ==
  /\ At_(p, "Unmarshal77")
  /\ \E u \in {UnmarshalString(procs[p].b)} :
       procs' = [procs EXCEPT ![p].j = u.j, ![p].err = u.err, ![p].pc = "Unmarshal78"]
  /\ UNCHANGED <<toString, toID, pc, call, ret>>

\* lines 78-80: if err != nil { return fmt.Errorf(...) }
Unmarshal78(p) ==
  /\ At_(p, "Unmarshal78")
  /\ procs' = IF procs[p].err # Nil
              THEN [procs EXCEPT
                      ![p].err = Wrapped("cannot unmarshal value %s to a TargetState: %w",
                                         procs[p].b, procs[p].err),
                      ![p].pc = "done"]
              ELSE [procs EXCEPT ![p].pc = "Unmarshal82"]
  /\ UNCHANGED <<toString, toID, pc, call, ret>>

\* line 82 of an UnmarshalJSON that also records the looked-up string in toID
Unmarshal82_Memoize(p) ==
  /\ At_(p, "Unmarshal82")
  /\ procs' = [procs EXCEPT ![p].state = MapGet(toID, procs[p].j, TargetStatePresent),
                            ![p].err = Nil, ![p].pc = "done"]
  /\ toID' = [w \in DOMAIN toID \cup {procs[p].j} |->
                MapGet(toID, w, TargetStatePresent)]
  /\ UNCHANGED <<toString, pc, call, ret>>

\* lines 82-83: *state = toID[j]; return nil
Unmarshal82(p) ==
  /\ At_(p, "Unmarshal82")
  /\ procs' = [procs EXCEPT ![p].state = MapGet(toID, procs[p].j, TargetStatePresent),
                            ![p].err = Nil, ![p].pc = "done"]
  /\ UNCHANGED <<toString, toID, pc, call, ret>>

\* lines 145-146: err := json.Unmarshal(rawBlueprint, &preparsedBlueprint)
Parse146(p) ==
  /\ At_(p, "Parse146")
  /\ \E u \in {UnmarshalGeneralBlueprint(procs[p].b)} :
       procs' = [procs EXCEPT ![p].api = u.api, ![p].err = u.err, ![p].pc = "Parse147"]
  /\ UNCHANGED <<toString, toID, pc, call, ret>>

\* lines 147-151: the zero GeneralBlueprint and the wrapped error, or
\* preparsedBlueprint and nil
Parse147(p) ==
  /\ At_(p, "Parse147")
  /\ procs' = IF procs[p].err # Nil
              THEN [procs EXCEPT ![p].api = <<>>,
                                 ![p].err = Wrapped(ParseHint, <<>>, procs[p].err),
                                 ![p].pc = "done"]
              ELSE [procs EXCEPT ![p].pc = "done"]
  /\ UNCHANGED <<toString, toID, pc, call, ret>>

NextConc ==
  \E p \in Procs :
    \/ String49(p)
    \/ Marshal64(p) \/ Marshal65(p) \/ Marshal66(p) \/ Marshal67(p)
    \/ Unmarshal77(p) \/ Unmarshal78(p) \/ Unmarshal82(p)
    \/ Parse146(p) \/ Parse147(p)

SpecConc == InitConc /\ [][NextConc]_vars

(***************************************************************************)
(* Claims about the codec, checked under SpecCodec                         *)
(***************************************************************************)
Returned(op) == pc = "done" /\ call.op = op

\* the wire text defined for a TargetState: none for Ignore or an undeclared value
DefinedWire(state) ==
  IF state = TargetStatePresent THEN {Quote(sPresent)}
  ELSE IF state = TargetStateAbsent THEN {Quote(sAbsent)}
  ELSE {}

\* C4: MarshalJSON never returns a nil error together with a wire text that
\* is not a defined representation of the value it was called on (Ignore and
\* the undeclared values have no defined representation).
C4_NoSilentWrongEncoding ==
  Returned("MarshalJSON") /\ ret.err = Nil => ret.bytes \in DefinedWire(call.state)

\* C5 as stated: UnmarshalJSON fails, with an error that carries the raw
\* bytes, on every well-formed wire value that is no string: number, boolean,
\* object, array and null; the destination is not given a value.
C5_Original ==
  Returned("UnmarshalJSON") /\ call.b \in NonStrings
    => /\ ret.err # Nil
       /\ ret.err.value = call.b
       /\ ret.state = call.state

\* b is one string literal: a quote, bytes that are no quote, a quote
IsQuoted(b) ==
  /\ Len(b) >= 2
  /\ b[1] = DQ /\ b[Len(b)] = DQ
  /\ \A i \in 2..(Len(b) - 1) : b[i] # DQ

\* C6: on every JSON string UnmarshalJSON returns nil and sets the
\* destination to Present for "present", to Absent for "absent" and to Present
\* for every other text, whatever the destination held; never to Ignore.
C6_StringsDecode ==
  Returned("UnmarshalJSON") /\ IsQuoted(call.b)
    => LET text == SubSeq(call.b, 2, Len(call.b) - 1)
       IN /\ ret.err = Nil
          /\ ret.state = IF text = sAbsent THEN TargetStateAbsent ELSE TargetStatePresent
          /\ ret.state # TargetStateIgnore

C6_Witness ==
  /\ Returned("UnmarshalJSON")
  /\ call.b = Quote(<<"w","h","a","t","e","v","e","r">>)
  /\ call.state = TargetStateIgnore
  /\ ret.state = TargetStatePresent

\* C7: for Present and Absent, MarshalJSON returns nil and the quoted text
\* "present" resp. "absent", and UnmarshalJSON on these bytes returns nil and
\* yields the value that was encoded, whatever the destination held.
C7_RoundTrip ==
  /\ Returned("MarshalJSON") /\ call.state \in {TargetStatePresent, TargetStateAbsent}
       => /\ ret.err = Nil
          /\ ret.bytes = Quote(IF call.state = TargetStatePresent THEN sPresent ELSE sAbsent)
  /\ pc = "decoded" /\ call.state \in {TargetStatePresent, TargetStateAbsent}
       => ret.err = Nil /\ ret.state = call.state

C7_Witness ==
  pc = "decoded" /\ call.state = TargetStateAbsent /\ ret.state = TargetStateAbsent


(***************************************************************************)
(* Claims about ParseBlueprint, checked under SpecParse                    *)
(***************************************************************************)
\* the input is a whole, well-formed JSON object
WholeObject == call.src.kind = "object" /\ call.src.cut = 0

\* the positions of the members of ms whose key is in keys
At(ms, keys) == {i \in 1..Len(ms) : ms[i].key \in keys}

\* the string of the last member of ms whose key is in keys, "" without one
LastString(ms, keys) ==
  IF At(ms, keys) = {} THEN <<>>
  ELSE ms[CHOOSE i \in At(ms, keys) : \A j \in At(ms, keys) : j <= i].val.str

AllStrings(ms, keys) == \A i \in At(ms, keys) : ms[i].val.kind = "string"

\* C1 as stated: on a well-formed object (holding a string under
\* blueprintApi, if the key is there) ParseBlueprint returns nil and the API
\* is the string under exactly the key blueprintApi, "" when that key is
\* absent; no other field changes the result or causes an error.
C1_Original ==
  Returned("ParseBlueprint") /\ WholeObject
    /\ AllStrings(call.src.members, {kBlueprintApi})
    => /\ ret.err = Nil
       /\ ret.api = LastString(call.src.members, {kBlueprintApi})

\* C1 amended: on a well-formed object in which every member whose key is
\* blueprintApi in any letter case holds a string, ParseBlueprint returns
\* nil and the API is, verbatim, the string of the last such member, "" when
\* there is none; members with any other key never change the result and
\* never cause an error.
C1_VersionDiscovered ==
  Returned("ParseBlueprint") /\ WholeObject
    /\ AllStrings(call.src.members, ApiKeys)
    => /\ ret.err = Nil
       /\ ret.api = LastString(call.src.members, ApiKeys)

C1_Witness ==
  /\ Returned("ParseBlueprint") /\ WholeObject
  /\ Len(call.src.members) = 2
  /\ call.src.members[1].key \notin ApiKeys
  /\ call.src.members[1].val.kind = "object"
  /\ call.src.members[2] = [key |-> kBlueprintApi, val |-> StringValue(<<"v","2">>)]
  /\ ret.api = <<"v","2">>

\* C2: after ParseBlueprint returned a nil error the API of the returned
\* GeneralBlueprint is not the empty string.
C2_APINeverEmpty ==
  Returned("ParseBlueprint") /\ ret.err = Nil => ret.api # <<>>

\* C3: ParseBlueprint returns an error that wraps the decoder's error and
\* carries the hint whenever the input is no well-formed JSON or holds under
\* blueprintApi a value that is no string (number, boolean, object, array,
\* null).
C3_MalformedRejected ==
  Returned("ParseBlueprint")
    /\ \/ call.src.kind = "garbage"
       \/ call.src.cut > 0
       \/ WholeObject /\ ~AllStrings(call.src.members, {kBlueprintApi})
    => /\ ret.err.kind = "wrapped"
       /\ ret.err.msg = ParseHint
       /\ ret.err.cause.kind \in {"SyntaxError", "UnmarshalTypeError"}

\* C10: whenever ParseBlueprint returns an error, the GeneralBlueprint it
\* returns with it is the zero value (API is "").
C10_ZeroValueOnError ==
  Returned("ParseBlueprint") /\ ret.err # Nil => ret.api = <<>>

\* a version was decoded before the member that fails
C10_Witness ==
  /\ Returned("ParseBlueprint") /\ WholeObject
  /\ Len(call.src.members) = 2
  /\ call.src.members[1] = [key |-> kBlueprintApi, val |-> StringValue(sV1)]
  /\ call.src.members[2] = [key |-> kBlueprintApi, val |-> NumberValue]
  /\ ret.err # Nil


(***************************************************************************)
(* Claims about the decoding into BlueprintV1, checked under SpecV1        *)
(***************************************************************************)
\* no member of the entry has one of the keys
Omits(entry, keys) == \A j \in 1..Len(entry.members) : entry.members[j].key \notin keys

\* every entry of es (as far as targets goes) that has none of the keys for
\* targetState is Present in targets
DefaultsToPresent(es, targets, keys) ==
  \A i \in 1..Len(es) :
    i <= Len(targets) /\ es[i].kind = "object" /\ Omits(es[i], keys)
      => targets[i].TargetState = TargetStatePresent

LastAt(ms, keys) == CHOOSE i \in At(ms, keys) : \A j \in At(ms, keys) : j <= i

\* the entries of the last array of ms under one of the keys default to Present
EntriesDefault(ms, keys, targets, stateKeys) ==
  At(ms, keys) # {} /\ ms[LastAt(ms, keys)].val.kind = "array"
    => DefaultsToPresent(ms[LastAt(ms, keys)].val.elems, targets, stateKeys)

AllGood(ms) == \A i \in 1..Len(ms) : ms[i].val.good

Alone(c) ==
  CASE c.op = "String" ->
         c.out = String(c.state0)
    [] c.op = "MarshalJSON" ->
         [bytes |-> c.out, err |-> c.err] = MarshalJSON(c.state0)
    [] c.op = "UnmarshalJSON" ->
         [state |-> c.state, err |-> c.err] = UnmarshalJSON(c.b0, c.state0)
    [] c.op = "ParseBlueprint" ->
         [api |-> c.api, err |-> c.err] = ParseBlueprint(c.b0)

\* C9: in every interleaving of concurrent calls the lookup tables toString
\* and toID and every caller's input buffer stay as they were, and a call
\* that has returned has returned what it returns when run alone on its
\* input.
C9_CallsArePure ==
  /\ toString = ToStringInit
  /\ toID = ToIDInit
  /\ \A p \in Procs :
       /\ procs[p].b = procs[p].b0
       /\ procs[p].pc = "done" => Alone(procs[p])

\* caller 1 has decoded "whatever" while caller 2 is inside MarshalJSON
C9_Witness ==
  /\ procs[1].op = "UnmarshalJSON" /\ procs[1].pc = "done"
  /\ procs[1].b0 = Quote(<<"w","h","a","t","e","v","e","r">>)
  /\ procs[1].state = TargetStatePresent
  /\ procs[2].op = "MarshalJSON" /\ procs[2].pc = "Marshal66"

=============================================================================
